---------------------------- MODULE Spec2Model ----------------------------
(***************************************************************************)
(* A model of the proof-of-work ledger of src/src/app.rs: the App ledger   *)
(* (genesis, try_add_block), the validator (is_block_valid,                *)
(* is_chain_valid), the fork choice (choose_chain) and the miner           *)
(* (Block::new, mine_block).                                               *)
(*                                                                         *)
(* A Rust String is a sequence of one-character strings, a byte array a    *)
(* sequence of numbers in 0..255.  A panic (panic!, expect on None/Err)    *)
(* aborts the process: the variable panicked records its message and no    *)
(* action is enabled afterwards.                                           *)
(***************************************************************************)
EXTENDS Integers, Sequences, FiniteSets, TLC

(***************************************************************************)
(* Bounds of the model.                                                    *)
(***************************************************************************)
\* the ledger and the candidate chains hold at most MaxChain blocks
MaxChain == 3
\* the miner's nonce counter is followed up to MaxNonce
MaxNonce == 5
\* the values Utc::now().timestamp() yields
Timestamps == {0, 1}

\* the payloads a caller passes as data
Payloads == { <<"a">>, <<"b", "c">> }

(***************************************************************************)
(* Strings and hex (the hex crate, as called at app.rs:63, 73, 155, 158).  *)
(***************************************************************************)
HexLower == <<"0", "1", "2", "3", "4", "5", "6", "7",
              "8", "9", "a", "b", "c", "d", "e", "f">>

HexUpper == <<"0", "1", "2", "3", "4", "5", "6", "7",
              "8", "9", "A", "B", "C", "D", "E", "F">>

\* the characters that occur in the model's strings, for the digest's encoding
Alphabet == HexLower \o <<"A", "B", "C", "D", "E", "F", "g", "n", "s", "i", "z">>

CodeTable ==
    [c \in {Alphabet[i] : i \in 1..Len(Alphabet)} |->
        CHOOSE i \in 1..Len(Alphabet) : Alphabet[i] = c]

CharCode(c) == CodeTable[c]

HexDigits == {HexLower[i] : i \in 1..16} \cup {HexUpper[i] : i \in 1..16}

HexTable ==
    [c \in HexDigits |-> (CHOOSE i \in 1..16 : HexLower[i] = c \/ HexUpper[i] = c) - 1]

IsHexDigit(c) == c \in HexDigits

HexValue(c) == HexTable[c]

\* hex::encode: two lowercase digits per byte
hex_encode(bytes) ==
    [i \in 1..(2 * Len(bytes)) |->
        IF i % 2 = 1 THEN HexLower[(bytes[(i + 1) \div 2] \div 16) + 1]
        ELSE HexLower[(bytes[i \div 2] % 16) + 1]]

\* hex::decode is Err on an odd length or on a character that is no hex digit
\* (either case of a..f is accepted)
hex_decode_ok(s) ==
    /\ Len(s) % 2 = 0
    /\ \A i \in 1..Len(s) : IsHexDigit(s[i])

\* hex::decode's Ok value
hex_decode(s) ==
    [i \in 1..(Len(s) \div 2) |-> 16 * HexValue(s[2 * i - 1]) + HexValue(s[2 * i])]

\* str::starts_with
starts_with(s, prefix) ==
    /\ Len(s) >= Len(prefix)
    /\ SubSeq(s, 1, Len(prefix)) = prefix

(***************************************************************************)
(* The difficulty rendering, app.rs:17-27.                                 *)
(***************************************************************************)
DIFFICULTY_PREFIX == <<"0", "0">>

\* format!("{:b}", c): the binary digits of c without leading zeros
RECURSIVE format_b(_)
format_b(c) ==
    IF c < 2 THEN <<IF c = 0 THEN "0" ELSE "1">>
    ELSE format_b(c \div 2) \o <<IF c % 2 = 0 THEN "0" ELSE "1">>

RECURSIVE hash_to_binary_representation(_)
hash_to_binary_representation(hash) ==
    IF hash = <<>> THEN <<>>
    ELSE format_b(Head(hash)) \o hash_to_binary_representation(Tail(hash))

(***************************************************************************)
(* calculate_hash is called at app.rs:73 and app.rs:149 and defined        *)
(* outside src/.  It is modelled from spec.md 4.1: a deterministic digest  *)
(* of fixed length over an unambiguous (length-prefixed) encoding of the   *)
(* five inputs.  The digest is a small multiplicative hash, four bytes     *)
(* long, whose first two bytes are one bit wide so that the difficulty     *)
(* rule is met by about one nonce in four.                                 *)
(***************************************************************************)
HashMult == 131
HashModulus == 262144
HashSeed == 7

CharCodes(s) == [i \in 1..Len(s) |-> CharCode(s[i])]

CanonicalEncoding(id, timestamp, previous_hash, data, nonce) ==
    <<id, timestamp, Len(previous_hash)>> \o CharCodes(previous_hash)
        \o <<Len(data)>> \o CharCodes(data) \o <<nonce>>

AbsorbWord(acc, word) == (acc * HashMult + word + 1) % HashModulus

\* the words lo..hi absorbed in order: the left half, then the right half
\* from the value the left half came to
RECURSIVE AbsorbRange(_, _, _, _)
AbsorbRange(acc, words, lo, hi) ==
    IF lo > hi THEN acc
    ELSE IF lo = hi THEN AbsorbWord(acc, words[lo])
    ELSE LET mid == (lo + hi) \div 2
         IN  CHOOSE r \in {AbsorbRange(left, words, mid + 1, hi) :
                           left \in {AbsorbRange(acc, words, lo, mid)}} : TRUE

Absorb(acc, words) ==
    CHOOSE r \in {AbsorbRange(acc, w, 1, Len(w)) : w \in {words}} : TRUE

Finalize(acc) == (acc * HashMult + (acc \div 64)) % HashModulus

calculate_hash(id, timestamp, previous_hash, data, nonce) ==
    LET acc == Finalize(Absorb(HashSeed,
                   CanonicalEncoding(id, timestamp, previous_hash, data, nonce)))
    IN  <<acc % 2, (acc \div 2) % 2, (acc \div 4) % 256, (acc \div 1024) % 256>>


(***************************************************************************)
(* Blocks, app.rs:5-13, and the validator, app.rs:58-85.                   *)
(***************************************************************************)
Block(id, hash, previous_hash, timestamp, data, nonce) ==
    [id |-> id, hash |-> hash, previous_hash |-> previous_hash,
     timestamp |-> timestamp, data |-> data, nonce |-> nonce]

\* what a call leaves behind: its return value ("true", "false"), or "panic"
\* when it unwinds, and the message it logged or panicked with
Outcome(ret, log) == [ret |-> ret, log |-> log]

\* a validator that expects the id of the previous block itself
is_block_valid_same_id(block, previous_block) ==
    IF block.previous_hash # previous_block.hash
    THEN Outcome("false", "has an invalid previous hash")
    ELSE IF ~hex_decode_ok(block.hash)
    THEN Outcome("panic", "can't decode from hex")
    ELSE IF ~starts_with(hash_to_binary_representation(hex_decode(block.hash)),
                         DIFFICULTY_PREFIX)
    THEN Outcome("false", "has an invalid difficulty")
    ELSE IF block.id # previous_block.id
    THEN Outcome("false", "is not the block after the latest")
    ELSE IF hex_encode(calculate_hash(block.id, block.timestamp,
                           block.previous_hash, block.data, block.nonce))
            # block.hash
    THEN Outcome("false", "has an invalid hash")
    ELSE Outcome("true", "")

\* a validator that decodes the hash before it looks at the link
is_block_valid_decode_first(block, previous_block) ==
    IF ~hex_decode_ok(block.hash)
    THEN Outcome("panic", "can't decode from hex")
    ELSE IF ~starts_with(hash_to_binary_representation(hex_decode(block.hash)),
                         DIFFICULTY_PREFIX)
    THEN Outcome("false", "has an invalid difficulty")
    ELSE IF block.previous_hash # previous_block.hash
    THEN Outcome("false", "has an invalid previous hash")
    ELSE IF block.id # previous_block.id + 1
    THEN Outcome("false", "is not the block after the latest")
    ELSE IF hex_encode(calculate_hash(block.id, block.timestamp,
                           block.previous_hash, block.data, block.nonce))
            # block.hash
    THEN Outcome("false", "has an invalid hash")
    ELSE Outcome("true", "")

\* the ids of the model stay far below 2^64, so previous_block.id + 1 does not
\* overflow
is_block_valid(block, previous_block) ==
    IF block.previous_hash # previous_block.hash
    THEN Outcome("false", "has an invalid previous hash")
    ELSE IF ~hex_decode_ok(block.hash)
    THEN Outcome("panic", "can't decode from hex")
    ELSE IF ~starts_with(hash_to_binary_representation(hex_decode(block.hash)),
                         DIFFICULTY_PREFIX)
    THEN Outcome("false", "has an invalid difficulty")
    ELSE IF block.id # previous_block.id + 1
    THEN Outcome("false", "is not the block after the latest")
    ELSE IF hex_encode(calculate_hash(block.id, block.timestamp,
                           block.previous_hash, block.data, block.nonce))
            # block.hash
    THEN Outcome("false", "has an invalid hash")
    ELSE Outcome("true", "")

(***************************************************************************)
(* The chain validator, app.rs:87-99: the loop over i, as a recursion on   *)
(* the 1-based index.  The first pair that is not valid ends the loop:     *)
(* with false, or with the panic of is_block_valid.                        *)
(***************************************************************************)
RECURSIVE is_chain_valid_from(_, _)
is_chain_valid_from(chain, i) ==
    IF i > Len(chain) THEN Outcome("true", "")
    ELSE IF i = 1 THEN is_chain_valid_from(chain, i + 1)
    ELSE LET first == chain[i - 1]
             second == chain[i]
             v == is_block_valid(second, first)
         IN  IF v.ret = "panic" THEN v
             ELSE IF v.ret # "true" THEN Outcome("false", v.log)
             ELSE is_chain_valid_from(chain, i + 1)

\* a loop that starts one pair too late
is_chain_valid_late_start(chain) == is_chain_valid_from(chain, 3)

is_chain_valid(chain) == is_chain_valid_from(chain, 1)

(***************************************************************************)
(* The fork choice, app.rs:102-120.  ret is "chain" with the chain chosen, *)
(* or "panic".                                                             *)
(***************************************************************************)
Chosen(chain) == [ret |-> "chain", chain |-> chain, log |-> ""]

Panicked(log) == [ret |-> "panic", chain |-> <<>>, log |-> log]

\* a fork choice that, of two valid chains, keeps local only when it is
\* strictly longer
choose_chain_tie_remote(local, remote) ==
    IF is_chain_valid(local).ret = "true" /\ is_chain_valid(remote).ret = "true"
       /\ Len(local) > Len(remote)
    THEN Chosen(local)
    ELSE Chosen(remote)

choose_chain(local, remote) ==
    LET l == is_chain_valid(local)
        r == is_chain_valid(remote)
    IN  IF l.ret = "panic" THEN Panicked(l.log)
        ELSE IF r.ret = "panic" THEN Panicked(r.log)
        ELSE LET is_local_valid == l.ret = "true"
                 is_remote_valid == r.ret = "true"
             IN  IF is_local_valid /\ is_remote_valid
                 THEN IF Len(local) >= Len(remote) THEN Chosen(local)
                      ELSE Chosen(remote)
                 ELSE IF is_remote_valid /\ ~is_local_valid THEN Chosen(remote)
                 ELSE IF ~is_remote_valid /\ is_local_valid THEN Chosen(local)
                 ELSE Panicked("local & remote chains invalid")

(***************************************************************************)
(* The genesis block, app.rs:35-45.                                        *)
(***************************************************************************)
GenesisText == <<"g", "e", "n", "e", "s", "i", "s">>

GenesisNonce == 2836

GenesisHash ==
    <<"0", "0", "0", "0", "f", "8", "1", "6", "a", "8", "7", "f", "8", "0", "6", "b",
       "b", "0", "0", "7", "3", "d", "c", "f", "0", "2", "6", "a", "6", "4", "f", "b",
       "4", "0", "c", "9", "4", "6", "b", "5", "a", "b", "e", "e", "2", "5", "7", "3",
       "7", "0", "2", "8", "2", "8", "6", "9", "4", "d", "5", "b", "4", "c", "4", "3">>

\* a genesis block numbered from one
GenesisBlockIdOne(now) == Block(1, GenesisHash, GenesisText, now, GenesisText, GenesisNonce)

GenesisBlock(now) == Block(0, GenesisHash, GenesisText, now, GenesisText, GenesisNonce)

(***************************************************************************)
(* The state.                                                              *)
(*   blocks     App.blocks, the ledger's chain                             *)
(*   panicked   "" while the process runs, else the message of the panic   *)
(*              that aborted it                                            *)
(*   miner      the call of Block::new in progress: its arguments, the     *)
(*              timestamp it took, the nonce of mine_block's loop and,     *)
(*              once mine_block has returned (pc = "done"), the hash       *)
(*   last_call  the event the node handled last: for try_add_block its     *)
(*              argument, the chain it found and how it ended ("ok" or     *)
(*              "panic")                                                   *)
(*   args, out  the inputs and the result of a call of one of the pure     *)
(*              functions, in the specifications that apply them           *)
(***************************************************************************)
VARIABLES blocks, panicked, miner, last_call, args, out

vars == <<blocks, panicked, miner, last_call, args, out>>

NoCall == [op |-> "none"]

MinerIdle ==
    [pc |-> "idle", id |-> 0, timestamp |-> 0, previous_hash |-> <<>>,
     data |-> <<>>, nonce |-> 0, hash |-> <<>>]

\* App::new, app.rs:29-31
Init ==
    /\ blocks = <<>>
    /\ panicked = ""
    /\ miner = MinerIdle
    /\ last_call = NoCall
    /\ args = NoCall
    /\ out = NoCall

(***************************************************************************)
(* The ledger, app.rs:35-54.                                               *)
(***************************************************************************)
\* App::genesis; the caller runs it once, on the ledger App::new returned
genesis(now) ==
    /\ panicked = ""
    /\ blocks = <<>>
    /\ blocks' = Append(blocks, GenesisBlock(now))
    /\ last_call' = [op |-> "genesis"]
    /\ UNCHANGED <<panicked, miner, args, out>>

Last(chain) == chain[Len(chain)]

TryAddCall(block, before, ret) ==
    [op |-> "try_add_block", block |-> block, before |-> before, ret |-> ret]

\* an append without the validator's verdict
try_add_block_unchecked(block) ==
    /\ panicked = ""
    /\ miner.pc # "loop"
    /\ blocks # <<>>
    /\ miner' = MinerIdle
    /\ blocks' = Append(blocks, block)
    /\ last_call' = TryAddCall(block, blocks, "ok")
    /\ UNCHANGED <<panicked, args, out>>

\* a ledger that puts an accepted block in the place of its last block
try_add_block_replacing(block) ==
    /\ panicked = ""
    /\ miner.pc # "loop"
    /\ miner' = MinerIdle
    /\ IF blocks = <<>>
       THEN /\ panicked' = "there is atleast a single block"
            /\ last_call' = TryAddCall(block, blocks, "panic")
            /\ UNCHANGED blocks
       ELSE LET latest_block == Last(blocks)
                v == is_block_valid(block, latest_block)
            IN  IF v.ret = "panic"
                THEN /\ panicked' = v.log
                     /\ last_call' = TryAddCall(block, blocks, "panic")
                     /\ UNCHANGED blocks
                ELSE IF v.ret = "true"
                THEN /\ blocks' = [blocks EXCEPT ![Len(blocks)] = block]
                     /\ last_call' = TryAddCall(block, blocks, "ok")
                     /\ UNCHANGED panicked
                ELSE /\ last_call' = TryAddCall(block, blocks, "ok")
                     /\ UNCHANGED <<blocks, panicked>>
    /\ UNCHANGED <<args, out>>

\* the node handles one event at a time: no block arrives while mine_block
\* runs, and the block is moved into the call
try_add_block(block) ==
    /\ panicked = ""
    /\ miner.pc # "loop"
    /\ miner' = MinerIdle
    /\ IF blocks = <<>>
       THEN /\ panicked' = "there is atleast a single block"
            /\ last_call' = TryAddCall(block, blocks, "panic")
            /\ UNCHANGED blocks
       ELSE LET latest_block == Last(blocks)
                v == is_block_valid(block, latest_block)
            IN  IF v.ret = "panic"
                THEN /\ panicked' = v.log
                     /\ last_call' = TryAddCall(block, blocks, "panic")
                     /\ UNCHANGED blocks
                ELSE IF v.ret = "true"
                THEN /\ blocks' = Append(blocks, block)
                     /\ last_call' = TryAddCall(block, blocks, "ok")
                     /\ UNCHANGED panicked
                ELSE /\ last_call' = TryAddCall(block, blocks, "ok")
                     /\ UNCHANGED <<blocks, panicked>>
    /\ UNCHANGED <<args, out>>

(***************************************************************************)
(* The miner, app.rs:127-162.  Block::new takes the timestamp and enters   *)
(* mine_block with nonce = 0; each step is one iteration of its loop.      *)
(***************************************************************************)
BlockNew(id, previous_hash, data, now) ==
    /\ panicked = ""
    /\ miner.pc # "loop"
    /\ miner' = [pc |-> "loop", id |-> id, timestamp |-> now,
                 previous_hash |-> previous_hash, data |-> data,
                 nonce |-> 0, hash |-> <<>>]
    /\ last_call' = [op |-> "Block::new"]
    /\ UNCHANGED <<blocks, panicked, args, out>>

\* a search that skips every other nonce
NextNonceSkipping(nonce) == nonce + 2

NextNonce(nonce) == nonce + 1

\* the test of app.rs:149-151 on one nonce
MeetsDifficulty(id, timestamp, previous_hash, data, nonce) ==
    \E hash \in {calculate_hash(id, timestamp, previous_hash, data, nonce)} :
        LET binary_hash == hash_to_binary_representation(hash)
        IN  starts_with(binary_hash, DIFFICULTY_PREFIX)

\* a loop that goes on to the next nonce whatever the hash of this one
mine_block_iteration_never_returning ==
    /\ panicked = ""
    /\ miner.pc = "loop"
    /\ miner.nonce < MaxNonce
    /\ miner' = [miner EXCEPT !.nonce = NextNonce(miner.nonce)]
    /\ UNCHANGED <<blocks, panicked, last_call, args, out>>

mine_block_iteration ==
    /\ panicked = ""
    /\ miner.pc = "loop"
    /\ \E hash \in {calculate_hash(miner.id, miner.timestamp, miner.previous_hash,
                                    miner.data, miner.nonce)} :
           IF MeetsDifficulty(miner.id, miner.timestamp, miner.previous_hash,
                              miner.data, miner.nonce)
           THEN miner' = [miner EXCEPT !.pc = "done", !.hash = hex_encode(hash)]
           ELSE /\ miner.nonce < MaxNonce
                /\ miner' = [miner EXCEPT !.nonce = NextNonce(miner.nonce)]
    /\ UNCHANGED <<blocks, panicked, last_call, args, out>>

\* a Block stamped with a second reading of the clock
NewBlockLateClock ==
    Block(miner.id, miner.hash, miner.previous_hash, miner.timestamp + 1,
          miner.data, miner.nonce)

\* the Block that Block::new returns once mine_block has returned
NewBlock ==
    Block(miner.id, miner.hash, miner.previous_hash, miner.timestamp,
          miner.data, miner.nonce)

(***************************************************************************)
(* The blocks that reach try_add_block: the block just mined, and what a   *)
(* peer may send in its place.                                             *)
(***************************************************************************)
ToUpper(s) ==
    [i \in 1..Len(s) |->
        IF IsHexDigit(s[i]) THEN HexUpper[HexValue(s[i]) + 1] ELSE s[i]]

\* b with its nonce replaced and its hash computed anew
Resealed(b, n) ==
    [b EXCEPT !.nonce = n,
              !.hash = hex_encode(calculate_hash(b.id, b.timestamp, b.previous_hash,
                                                 b.data, n))]

Tampered(b) ==
    { [b EXCEPT !.data = d] : d \in Payloads \ {b.data} }
    \cup { [b EXCEPT !.timestamp = b.timestamp + 1],
           [b EXCEPT !.id = b.id + 1],
           [b EXCEPT !.nonce = b.nonce + 1],
           [b EXCEPT !.previous_hash = GenesisText],
           [b EXCEPT !.hash = ToUpper(b.hash)],
           [b EXCEPT !.hash = SubSeq(b.hash, 1, Len(b.hash) - 1)],
           [b EXCEPT !.hash = <<"z", "z">> \o b.hash] }
    \cup { Resealed(b, n) : n \in 0..MaxNonce }

BlockInputs ==
    IF miner.pc = "done" THEN {NewBlock} \cup Tampered(NewBlock)
    ELSE IF blocks # <<>>
    THEN LET b == Block(Last(blocks).id + 1, <<"0", "0", "0", "0">>,
                        Last(blocks).hash, 0, <<"a">>, 0)
         IN  {b} \cup Tampered(b)
    ELSE {GenesisBlock(0)}

\* the arguments Block::new is called with: the successor of the latest block
\* with some payload, or the genesis block to be mined afresh
NewInputs ==
    {<<0, GenesisText, GenesisText>>}
    \cup (IF blocks = <<>> THEN {}
          ELSE {<<Last(blocks).id + 1, Last(blocks).hash, d>> : d \in Payloads})

Next ==
    \/ \E now \in Timestamps : genesis(now)
    \/ \E block \in BlockInputs : Len(blocks) < MaxChain /\ try_add_block(block)
    \/ \E a \in NewInputs, now \in Timestamps : BlockNew(a[1], a[2], a[3], now)
    \/ mine_block_iteration

Spec == Init /\ [][Next]_vars

(***************************************************************************)
(* The validator applied to pairs of blocks drawn from a bounded set.      *)
(***************************************************************************)
\* mine_block run to its return, app.rs:141-162; the pair <<nonce, hash>>
RECURSIVE mine_block_from(_, _, _, _, _)
mine_block_from(id, timestamp, previous_hash, data, nonce) ==
    IF MeetsDifficulty(id, timestamp, previous_hash, data, nonce)
       \/ nonce >= MaxNonce
    THEN <<nonce, hex_encode(calculate_hash(id, timestamp, previous_hash, data, nonce))>>
    ELSE mine_block_from(id, timestamp, previous_hash, data, NextNonce(nonce))

mine_block(id, timestamp, previous_hash, data) ==
    mine_block_from(id, timestamp, previous_hash, data, 0)

\* Block::new with the clock at now
MinedBlock(id, previous_hash, data, now) ==
    LET m == mine_block(id, now, previous_hash, data)
    IN  Block(id, m[2], previous_hash, now, data, m[1])

\* the predecessors: the genesis block and a block mined on it
Predecessors ==
    {GenesisBlock(0), MinedBlock(1, GenesisHash, <<"a">>, 0)}

\* the hash fields tried on a block of the given content
HashInputs(id, timestamp, previous_hash, data, nonce) ==
    LET sealed == hex_encode(calculate_hash(id, timestamp, previous_hash, data, nonce))
    IN  {sealed, ToUpper(sealed), SubSeq(sealed, 1, Len(sealed) - 1),
         <<"z", "z">> \o sealed, <<"0", "0", "0", "0", "a", "b">>}

ValidatorInputs ==
    UNION { { [op |-> "is_block_valid",
               block |-> Block(id, hash, previous_hash, timestamp, data, nonce),
               previous_block |-> p] :
               hash \in HashInputs(id, timestamp, previous_hash, data, nonce) } :
            p \in Predecessors,
            id \in 0..2,
            previous_hash \in {GenesisHash, GenesisText,
                               MinedBlock(1, GenesisHash, <<"a">>, 0).hash},
            timestamp \in Timestamps,
            data \in Payloads,
            nonce \in 0..MaxNonce }

InitValidator ==
    /\ blocks = <<>>
    /\ panicked = ""
    /\ miner = MinerIdle
    /\ last_call = NoCall
    /\ args \in ValidatorInputs
    /\ out = NoCall

CallIsBlockValid ==
    /\ args.op = "is_block_valid"
    /\ out = NoCall
    /\ out' = [op |-> "is_block_valid"]
              @@ is_block_valid(args.block, args.previous_block)
    /\ UNCHANGED <<blocks, panicked, miner, last_call, args>>

NextValidator == CallIsBlockValid

SpecValidator == InitValidator /\ [][NextValidator]_vars

(***************************************************************************)
(* The chain validator and the fork choice applied to chains drawn from a  *)
(* bounded set: chains grown from genesis by mining, a fork of each at its *)
(* last block, and each of these with one block altered.                   *)
(***************************************************************************)
RECURSIVE MainLine(_)
MainLine(n) ==
    IF n = 0 THEN <<>>
    ELSE IF n = 1 THEN <<GenesisBlock(0)>>
    ELSE LET c == MainLine(n - 1)
         IN  Append(c, MinedBlock(Last(c).id + 1, Last(c).hash, <<"a">>, 0))

Fork(n) ==
    LET c == MainLine(n - 1)
    IN  Append(c, MinedBlock(Last(c).id + 1, Last(c).hash, <<"b", "c">>, 1))

HonestChains ==
    {MainLine(n) : n \in 0..MaxChain} \cup {Fork(n) : n \in 2..MaxChain}

Altered(b) ==
    { [b EXCEPT !.data = <<"z">>],
      [b EXCEPT !.id = b.id + 1],
      [b EXCEPT !.previous_hash = GenesisText],
      [b EXCEPT !.hash = <<"z", "z">> \o b.hash] }

AlteredAt(c, i) == { [c EXCEPT ![i] = t] : t \in Altered(c[i]) }

AlteredChains ==
    UNION { UNION { AlteredAt(c, i) : i \in 1..Len(c) } : c \in HonestChains }

ChainInputs == HonestChains \cup AlteredChains

\* the ledger holds a chain of its own while candidate chains are validated
InitChain ==
    /\ blocks = MainLine(2)
    /\ panicked = ""
    /\ miner = MinerIdle
    /\ last_call = NoCall
    /\ args \in { [op |-> "chains", local |-> l, remote |-> r] :
                  l \in ChainInputs, r \in ChainInputs }
    /\ out = NoCall

\* a chain validator that keeps the chain it was shown as the ledger's own
CallIsChainValidKeeping ==
    /\ args.op = "chains"
    /\ out' = [op |-> "is_chain_valid"] @@ is_chain_valid(args.local)
    /\ blocks' = args.local
    /\ UNCHANGED <<panicked, miner, last_call, args>>

CallIsChainValid ==
    /\ args.op = "chains"
    /\ out' = [op |-> "is_chain_valid"] @@ is_chain_valid(args.local)
    /\ UNCHANGED <<blocks, panicked, miner, last_call, args>>

CallChooseChain ==
    /\ args.op = "chains"
    /\ out' = [op |-> "choose_chain"] @@ choose_chain(args.local, args.remote)
    /\ UNCHANGED <<blocks, panicked, miner, last_call, args>>

NextChain == CallIsChainValid \/ CallChooseChain

SpecChain == InitChain /\ [][NextChain]_vars

(***************************************************************************)
(* The claims.                                                             *)
(***************************************************************************)
\* the four conditions of the validator, each on its own
LinkHolds(block, previous_block) == block.previous_hash = previous_block.hash

DifficultyHolds(block) ==
    /\ hex_decode_ok(block.hash)
    /\ starts_with(hash_to_binary_representation(hex_decode(block.hash)),
                   DIFFICULTY_PREFIX)

SequenceHolds(block, previous_block) == block.id = previous_block.id + 1

HashHolds(block) ==
    hex_encode(calculate_hash(block.id, block.timestamp, block.previous_hash,
                              block.data, block.nonce)) = block.hash

AllFourHold(block, previous_block) ==
    /\ LinkHolds(block, previous_block)
    /\ DifficultyHolds(block)
    /\ SequenceHolds(block, previous_block)
    /\ HashHolds(block)

\* C1: is_block_valid returns true exactly when the link, the difficulty, the
\* sequence and the recomputed hash all hold, and returns false when any one
\* of them fails.
C1_TrueIffAllFourElseFalse ==
    out.op = "is_block_valid" =>
        /\ (out.ret = "true") <=> AllFourHold(args.block, args.previous_block)
        /\ ~AllFourHold(args.block, args.previous_block) => out.ret = "false"

\* C2: try_add_block on a non-empty ledger with a block that does not pass
\* is_block_valid against the last block leaves the chain as it was and
\* returns normally.
C2_RejectedBlockLeavesLedger ==
    (/\ last_call.op = "try_add_block"
     /\ last_call.before # <<>>
     /\ is_block_valid(last_call.block, Last(last_call.before)).ret # "true")
    => /\ blocks = last_call.before
       /\ last_call.ret = "ok"
       /\ panicked = ""

\* C3: in every state reached from genesis by calls of try_add_block, every
\* block of the ledger from the second on passes is_block_valid against the
\* block before it, and is_chain_valid of the ledger's chain is true.
C3_LedgerChainValid ==
    /\ \A i \in 2..Len(blocks) : AllFourHold(blocks[i], blocks[i - 1])
    /\ \A i \in 2..Len(blocks) : is_block_valid(blocks[i], blocks[i - 1]).ret = "true"
    /\ is_chain_valid(blocks).ret = "true"

\* C3's case: the ledger holds genesis and two blocks after it, the last of
\* them appended by the latest call of try_add_block
C3_Witness ==
    /\ Len(blocks) >= 3
    /\ last_call.op = "try_add_block"
    /\ blocks = Append(last_call.before, last_call.block)

\* C4: is_chain_valid is true of the empty chain and of a chain of one block,
\* and of a longer chain exactly when every block from the second on passes
\* is_block_valid against the block before it; the first block is checked
\* against nothing.
C4_ChainValidIffEveryPair ==
    out.op = "is_chain_valid" =>
        /\ Len(args.local) <= 1 => out.ret = "true"
        /\ (out.ret = "true") <=>
               \A i \in 2..Len(args.local) :
                   is_block_valid(args.local[i], args.local[i - 1]).ret = "true"

\* C4's case: a chain of three blocks or more whose first pair is valid and
\* which a later pair makes invalid
C4_Witness ==
    /\ out.op = "is_chain_valid"
    /\ Len(args.local) >= 3
    /\ out.ret = "false"
    /\ is_block_valid(args.local[2], args.local[1]).ret = "true"

\* C5: of two chains that both pass is_chain_valid, choose_chain returns remote
\* when remote is strictly longer, and local otherwise (also on equal length).
C5_BothValidLongerElseLocal ==
    (/\ out.op = "choose_chain"
     /\ is_chain_valid(args.local).ret = "true"
     /\ is_chain_valid(args.remote).ret = "true")
    => /\ out.ret = "chain"
       /\ out.chain = IF Len(args.remote) > Len(args.local)
                      THEN args.remote ELSE args.local

\* C5's case: two valid chains of the same length that differ, local chosen
C5_Witness ==
    /\ out.op = "choose_chain"
    /\ is_chain_valid(args.local).ret = "true"
    /\ is_chain_valid(args.remote).ret = "true"
    /\ Len(args.local) = Len(args.remote)
    /\ Len(args.local) >= 2
    /\ args.local # args.remote
    /\ out.chain = args.local

\* C6: when exactly one of local and remote passes is_chain_valid, choose_chain
\* returns that one, whatever the two lengths.
C6_OnlyValidOneChosen ==
    (/\ out.op = "choose_chain"
     /\ (is_chain_valid(args.local).ret = "true")
            # (is_chain_valid(args.remote).ret = "true"))
    => /\ out.ret = "chain"
       /\ out.chain = IF is_chain_valid(args.local).ret = "true"
                      THEN args.local ELSE args.remote

\* C7: when neither local nor remote passes is_chain_valid, choose_chain hands
\* its caller a ChainConflictError and does not abort the process.
C7_NeitherValidSignalsConflict ==
    (/\ out.op = "choose_chain"
     /\ is_chain_valid(args.local).ret # "true"
     /\ is_chain_valid(args.remote).ret # "true")
    => out.ret = "ChainConflictError"

\* C8: a block whose previous_hash is the hash of the last block and whose
\* hash is not well-formed hex is turned down by try_add_block: the ledger
\* stays as it was and the process goes on.
C8_MalformedHashRejected ==
    (/\ last_call.op = "try_add_block"
     /\ last_call.before # <<>>
     /\ last_call.block.previous_hash = Last(last_call.before).hash
     /\ ~hex_decode_ok(last_call.block.hash))
    => /\ is_block_valid(last_call.block, Last(last_call.before)).ret = "false"
       /\ blocks = last_call.before
       /\ panicked = ""

\* the nonces up to n that meet the difficulty rule on the miner's inputs
MinerHits(n) ==
    {k \in 0..n : MeetsDifficulty(miner.id, miner.timestamp, miner.previous_hash,
                                  miner.data, k)}

\* C9: mine_block tries the nonces 0, 1, 2, ... in order: while it searches no
\* nonce below the current one meets the difficulty rule, and the pair it
\* returns is the least nonce that meets it with the hex of that nonce's
\* hash, a function of the inputs alone.
C9_LeastNonceReturned ==
    /\ miner.pc = "loop" => MinerHits(miner.nonce - 1) = {}
    /\ miner.pc = "done" =>
           /\ MinerHits(miner.nonce) = {miner.nonce}
           /\ <<miner.nonce, miner.hash>>
                  = mine_block(miner.id, miner.timestamp, miner.previous_hash,
                               miner.data)

\* C9's case: mine_block returned after at least two nonces failed
C9_Witness ==
    /\ miner.pc = "done"
    /\ miner.nonce >= 2

\* C10: the block Block::new returns carries the hex of the hash of its own
\* id, timestamp, previous_hash, data and nonce, and the bit string of that
\* hash starts with "00".
C10_MinedBlockSealed ==
    miner.pc = "done" =>
        /\ HashHolds(NewBlock)
        /\ DifficultyHolds(NewBlock)

\* C10's case: Block::new returned a successor of a mined block
C10_Witness ==
    /\ miner.pc = "done"
    /\ NewBlock.id >= 2
    /\ NewBlock.previous_hash = Last(blocks).hash

\* the block Block::new returns for a successor of the last block of chain,
\* when mine_block came back with a nonce that meets the difficulty rule
MinedOn(chain, b) ==
    /\ chain # <<>>
    /\ b = MinedBlock(Last(chain).id + 1, Last(chain).hash, b.data, b.timestamp)
    /\ MeetsDifficulty(b.id, b.timestamp, b.previous_hash, b.data, b.nonce)

\* C11: a block mined with the hash of the ledger's last block as previous_hash
\* and that block's id plus one as id passes is_block_valid against it, and
\* try_add_block appends it.
C11_MinedSuccessorAppended ==
    /\ (miner.pc = "done" /\ MinedOn(blocks, NewBlock))
           => is_block_valid(NewBlock, Last(blocks)).ret = "true"
    /\ (last_call.op = "try_add_block" /\ MinedOn(last_call.before, last_call.block))
           => /\ blocks = Append(last_call.before, last_call.block)
              /\ last_call.ret = "ok"
              /\ panicked = ""

\* C11's case: try_add_block was handed a block mined on a mined block
C11_Witness ==
    /\ last_call.op = "try_add_block"
    /\ Len(last_call.before) >= 2
    /\ MinedOn(last_call.before, last_call.block)

BlockFields == {"id", "hash", "previous_hash", "timestamp", "data", "nonce"}

\* b differs from a block mined on the last block of chain in one field alone
OneFieldChanged(chain, b) ==
    /\ chain # <<>>
    /\ \E d \in Payloads, now \in Timestamps :
           LET m == MinedBlock(Last(chain).id + 1, Last(chain).hash, d, now)
           IN  /\ is_block_valid(m, Last(chain)).ret = "true"
               /\ Cardinality({f \in BlockFields : b[f] # m[f]}) = 1

\* C12: a validly mined block of which one field was changed without mining
\* anew makes is_block_valid return false.
C12_OneFieldChangedIsFalse ==
    (last_call.op = "try_add_block" /\ OneFieldChanged(last_call.before, last_call.block))
        => is_block_valid(last_call.block, Last(last_call.before)).ret = "false"

\* C13: after App::new the ledger's chain is not empty, and try_add_block does
\* not fail for want of a last block.
C13_LedgerNeverEmpty ==
    /\ blocks # <<>>
    /\ panicked # "there is atleast a single block"

MaxHashLen == 3

ByteSamples == {0, 1, 63, 64, 128, 255}

\* hashes as mine_block and is_block_valid see them: sequences of bytes
HashByteInputs ==
    UNION {[1..n -> ByteSamples] : n \in 1..MaxHashLen}

\* the test both mine_block and is_block_valid apply to the bytes of a hash
difficulty_test(hash) ==
    starts_with(hash_to_binary_representation(hash), DIFFICULTY_PREFIX)

DifficultyInputs == {[op |-> "difficulty", hash |-> h] : h \in HashByteInputs}

InitDifficulty ==
    /\ blocks = <<>>
    /\ panicked = ""
    /\ miner = MinerIdle
    /\ last_call = NoCall
    /\ args \in DifficultyInputs
    /\ out = NoCall

\* the miner tests the bytes calculate_hash returned, the validator the bytes
\* it decoded from the block's hex hash
CallDifficulty ==
    /\ args.op = "difficulty"
    /\ out = NoCall
    /\ out' = [op |-> "difficulty",
               miner |-> difficulty_test(args.hash),
               validator |-> difficulty_test(hex_decode(hex_encode(args.hash)))]
    /\ UNCHANGED <<blocks, panicked, miner, last_call, args>>

NextDifficulty == CallDifficulty

SpecDifficulty == InitDifficulty /\ [][NextDifficulty]_vars

\* C14: the difficulty test holds exactly when the two highest bits of the first
\* byte of the hash are zero, whatever the other bits and bytes are.
C14_TopTwoBitsOfFirstByte ==
    out.op = "difficulty"
        => /\ out.miner <=> args.hash[1] < 64
           /\ out.validator <=> args.hash[1] < 64

\* C15: the genesis block is consistent with itself: the hash recomputed from
\* its fields, in hex, equals its stored hash, and the stored hash meets the
\* difficulty rule.
C15_GenesisSelfConsistent ==
    blocks # <<>> => /\ HashHolds(blocks[1])
                     /\ DifficultyHolds(blocks[1])

C17_FirstFailingCheckReported ==
    out.op = "is_block_valid" =>
        LET block == args.block
            previous_block == args.previous_block
        IN  IF ~LinkHolds(block, previous_block)
            THEN out.ret = "false" /\ out.log = "has an invalid previous hash"
            ELSE IF ~hex_decode_ok(block.hash)
            THEN out.log = "can't decode from hex"
            ELSE IF ~DifficultyHolds(block)
            THEN out.ret = "false" /\ out.log = "has an invalid difficulty"
            ELSE IF ~SequenceHolds(block, previous_block)
            THEN out.ret = "false" /\ out.log = "is not the block after the latest"
            ELSE IF ~HashHolds(block)
            THEN out.ret = "false" /\ out.log = "has an invalid hash"
            ELSE out.ret = "true"

\* C17's case: the link failed on a block whose hash would not decode and whose
\* id is out of sequence as well
C17_Witness ==
    /\ out.op = "is_block_valid"
    /\ ~LinkHolds(args.block, args.previous_block)
    /\ ~hex_decode_ok(args.block.hash)
    /\ ~SequenceHolds(args.block, args.previous_block)

\* C18: a try_add_block that accepts its block leaves the chain as the chain
\* before followed by that block, and no try_add_block removes, reorders or
\* rewrites a block already in the chain.
C18_AppendOnly ==
    last_call.op = "try_add_block" =>
        /\ blocks \in {last_call.before, Append(last_call.before, last_call.block)}
        /\ (/\ last_call.before # <<>>
            /\ is_block_valid(last_call.block, Last(last_call.before)).ret = "true")
               => blocks = Append(last_call.before, last_call.block)

\* C18's case: try_add_block accepted a block on a chain of two blocks
C18_Witness ==
    /\ last_call.op = "try_add_block"
    /\ Len(last_call.before) = 2
    /\ Len(blocks) = 3

\* C19: the block at index i of the ledger's chain has id i, and from index 1
\* on its previous_hash is the hash of the block before it.
C19_IdsAndLinks ==
    \A i \in 1..Len(blocks) :
        /\ blocks[i].id = i - 1
        /\ i >= 2 => blocks[i].previous_hash = blocks[i - 1].hash

\* C19's case: a ledger of three blocks
C19_Witness ==
    /\ Len(blocks) >= 3
    /\ blocks[3].id = 2

\* mine_block is a loop in a running thread: an iteration that can be taken
\* is taken
SpecLive == Spec /\ WF_vars(mine_block_iteration)

\* C20: when some nonce meets the difficulty rule on the miner's inputs,
\* mine_block comes to return, with a nonce that meets the rule and without a
\* failure.
C20_MiningTerminates ==
    (miner.pc = "loop" /\ MinerHits(MaxNonce) # {})
        ~> (/\ miner.pc = "done"
            /\ miner.nonce \in MinerHits(MaxNonce)
            /\ panicked = "")

\* C20's case: mine_block returned for a successor block after a nonce failed
C20_Witness ==
    /\ miner.pc = "done"
    /\ miner.id >= 1
    /\ miner.nonce >= 1
    /\ panicked = ""

=============================================================================
